---- MODULE Spec2Model ----
(***************************************************************************)
(* TaskWeaver: the workflow scheduling engine, in its two variants:        *)
(*   "Workflow"  = src/src/core/Workflow.ts  (task-completed listeners)     *)
(*   "Workflow2" = src/unnamed/part_002      (start-task triggers; this is  *)
(*                 the class src/src/index.ts imports and exports)          *)
(* One step of the model is one synchronous run of engine code between two *)
(* awaits: JavaScript runs it without interleaving.                        *)
(***************************************************************************)
EXTENDS Integers, Sequences, FiniteSets, TLC

VARIABLES
    engine,          \* which class is instantiated
    tasks,           \* this.tasks: name -> Task
    dependencyList,  \* this.dependencyList: name -> set of names
    startedTasks,    \* this.startedTasks
    completedTasks,  \* this.completedTasks
    results,         \* this.results: name -> result
    status,          \* this.status
    taskLogs,        \* this.logs.tasks: name -> sequence of entries
    workflowLog,     \* this.logs.workflow
    listeners,       \* Workflow: number of `task-completed:dep` listeners per <<dep, target>>
    startListeners,  \* Workflow2: names with a `start-task:name` listener
    startPc,         \* position of the start() call: "new", "awaiting", "resolved"
    pc,              \* position of executeTask(name): "idle", "action", "wait", "done"
    attempts,        \* executeTask's local `attempts`
    success,         \* executeTask's local `success`
    actionCalls,     \* history: number of task.action() invocations
    entered,         \* history: number of times executeTask passed startedTasks.add
    guardHits,       \* history: attemptToStartTask calls stopped by the started/completed guard
    signals,         \* history: for each completed task, the names it sent a trigger to
    delays,          \* history: the wait(delay) calls of each task: <<attempt, ms>>
    outcomes,        \* history: how each attempt's action ended: "ok", "err", "hang"
    onceListeners,   \* Workflow: number of once(`task-completed:dep`) listeners per <<dep, target>>
    rejected,        \* history: the error executeTask(name)'s promise was rejected with, "" if none
    plan,            \* the addTask calls the application's callbacks still make
    addLog,          \* history: the addTask calls made, each with how it ended
    options,         \* which of onTaskStart, onTaskComplete, onTaskError the constructor was given
    hookCalls,       \* history: the hooks called for each task, in call order
    skips,           \* history: the names for which executeTask found runIf false
    recorded,        \* history: this.results just after results[name] was written
    evaluated,       \* history: this.results as triggerNextTasks(name) read it
    late             \* the action promise that lost the race against its timer:
                     \* "none", "pending", or "settled" once it has settled

vars == <<engine, tasks, dependencyList, startedTasks, completedTasks, results,
          status, taskLogs, workflowLog, listeners, startListeners, startPc, pc,
          attempts, success, actionCalls, entered, guardHits, signals, delays,
          outcomes, onceListeners, rejected, plan, addLog, options, hookCalls,
          skips, recorded, evaluated, late>>

(***************************************************************************)
(* Bounds and input sets                                                    *)
(***************************************************************************)
MaxAttempts == 3

Names == {"A", "B", "C", "D", "E"}
Engines == {"Workflow", "Workflow2"}
Delays == {0, 500}
NoResult == "undefined"

(***************************************************************************)
(* Task descriptions (src/src/types/TaskTypes.ts)                           *)
(***************************************************************************)
\* `next` is written as one name or as a list of names
NoNext == [kind |-> "none", names |-> {}]
NextString(n) == [kind |-> "string", names |-> {n}]
NextArray(S) == [kind |-> "array", names |-> S]

\* a branch: its condition is true when the owner's own result carries one of
\* the labels in `when`
Branch(when, next) == [when |-> when, next |-> next]

Task(next, branches, default, dependencies) ==
    [next |-> next, branches |-> branches, default |-> default,
     dependencies |-> dependencies, hasRetry |-> FALSE, maxAttempts |-> 1,
     delay |-> 0, hasTimeout |-> FALSE, runIf |-> "none", onError |-> "none",
     onStart |-> "none", onComplete |-> "none"]

Leaf == Task(NoNext, <<>>, {}, {})

\* the results an action can resolve with, up to what the branch conditions
\* of the task can tell apart
ResultChoices(task) ==
    {"other"} \cup UNION {task.branches[i].when : i \in DOMAIN task.branches}

\* branch.condition(this.results)
Condition(branch, owner, res) == res[owner] \in branch.when

(***************************************************************************)
(* createDependencyList                                                     *)
(***************************************************************************)
\* Array.isArray(task.next) ? task.next : [task.next]
NextTasks(task) == task.next.names

BranchTargets(task) == UNION {task.branches[i].next : i \in DOMAIN task.branches}

EdgeTargets(task) == NextTasks(task) \cup task.default \cup BranchTargets(task)

createDependencyList(ts) ==
    LET keys == DOMAIN ts \cup UNION {EdgeTargets(ts[t]) : t \in DOMAIN ts}
    IN  [k \in keys |-> {t \in DOMAIN ts : k \in EdgeTargets(ts[t])}]

(***************************************************************************)
(* The engine state as one record, so that synchronous cascades (an emit    *)
(* that starts several tasks) compose as functions                          *)
(***************************************************************************)
Cur ==
    [tasks |-> tasks, dependencyList |-> dependencyList,
     onceListeners |-> onceListeners, rejected |-> rejected,
     startedTasks |-> startedTasks, completedTasks |-> completedTasks,
     results |-> results, taskLogs |-> taskLogs, workflowLog |-> workflowLog,
     listeners |-> listeners, pc |-> pc, attempts |-> attempts,
     success |-> success, actionCalls |-> actionCalls, entered |-> entered,
     guardHits |-> guardHits, signals |-> signals, delays |-> delays,
     hookCalls |-> hookCalls, skips |-> skips, recorded |-> recorded,
     evaluated |-> evaluated]

\* the record is evaluated once, then assigned field by field
Commit(next) ==
  \E s \in {next} :
    /\ tasks' = s.tasks
    /\ dependencyList' = s.dependencyList
    /\ onceListeners' = s.onceListeners
    /\ rejected' = s.rejected
    /\ startedTasks' = s.startedTasks
    /\ completedTasks' = s.completedTasks
    /\ results' = s.results
    /\ taskLogs' = s.taskLogs
    /\ workflowLog' = s.workflowLog
    /\ listeners' = s.listeners
    /\ pc' = s.pc
    /\ attempts' = s.attempts
    /\ success' = s.success
    /\ actionCalls' = s.actionCalls
    /\ entered' = s.entered
    /\ guardHits' = s.guardHits
    /\ signals' = s.signals
    /\ delays' = s.delays
    /\ hookCalls' = s.hookCalls
    /\ skips' = s.skips
    /\ recorded' = s.recorded
    /\ evaluated' = s.evaluated

LogEntry(event, attempt, st, error) ==
    [event |-> event, attempt |-> attempt, status |-> st, error |-> error]

(***************************************************************************)
(* executeTask                                                              *)
(***************************************************************************)
RetryMaxAttempts(task) == IF task.hasRetry THEN task.maxAttempts ELSE 1

RetryDelay(task) == IF task.hasRetry THEN task.delay ELSE 0

\* a hook is called; executeTask awaits what it returns
Call(s, t, hook) == [s EXCEPT !.hookCalls[t] = Append(@, hook), !.pc[t] = hook]

\* `this.withTimeout(task.action(), ...)`: the action is invoked
CallAction(s, t) == [s EXCEPT !.actionCalls[t] = @ + 1, !.pc[t] = "action"]

\* `task.onStart && await task.onStart(task)`, then the action
AfterOnTaskStart(s, t) ==
    IF s.tasks[t].onStart = "none" THEN CallAction(s, t) ELSE Call(s, t, "onStart")

\* `this.onTaskStart && await this.onTaskStart(task)`, then the task's onStart
StartHooks(s, t) ==
    IF options.onTaskStart THEN Call(s, t, "onTaskStart") ELSE AfterOnTaskStart(s, t)

\* the head of the retry loop: attempts++, the TaskStarted entry, the hooks of
\* the start, task.action()
BeginAttempt(s, t) ==
    StartHooks([s EXCEPT !.attempts[t] = @ + 1,
                         !.taskLogs[t] = Append(@, LogEntry("TaskStarted", s.attempts[t] + 1, "Started", ""))],
               t)

\* the loop condition without `&& !success`
LoopHeadIgnoringSuccess(s, t) ==
    IF s.attempts[t] < RetryMaxAttempts(s.tasks[t])
    THEN BeginAttempt(s, t)
    ELSE [s EXCEPT !.pc[t] = "done"]

\* the loop condition with `<=` for `<`
LoopHeadOffByOne(s, t) ==
    IF s.attempts[t] <= RetryMaxAttempts(s.tasks[t]) /\ ~s.success[t]
    THEN BeginAttempt(s, t)
    ELSE [s EXCEPT !.pc[t] = "done"]

\* while (attempts < maxAttempts && !success)
LoopHead(s, t) ==
    IF s.attempts[t] < RetryMaxAttempts(s.tasks[t]) /\ ~s.success[t]
    THEN BeginAttempt(s, t)
    ELSE [s EXCEPT !.pc[t] = "done"]

\* task.runIf(this.results): "false" is a predicate that never holds, "ifA" one
\* that reads the result of task A
RunIf(task, res) ==
    CASE task.runIf = "false" -> FALSE
      [] task.runIf = "ifA" -> res["A"] = "a"
      [] OTHER -> TRUE

\* the test without the call of the predicate
RunIfIgnored(task, res) == FALSE

\* `task.runIf && !task.runIf(this.results)`
RunIfBlocks(task, res) == task.runIf # "none" /\ ~RunIf(task, res)

\* Workflow.ts: `if (this.startedTasks.has(taskName)) return;`
ExecuteGuard(s, t) == t \in s.startedTasks

\* no task of that name: Workflow.ts throws `Task "t" not found`, Workflow2 reads
\* `task.runIf` of undefined; either way the promise of executeTask is rejected
TaskNotFound(s, t) ==
    [s EXCEPT !.rejected[t] = IF engine = "Workflow" THEN "Task not found" ELSE "TypeError"]

\* the pipeline entered without the task being marked as started
executeTaskUnmarked(s, t) ==
    IF engine = "Workflow" /\ ExecuteGuard(s, t) THEN s
    ELSE IF t \notin DOMAIN s.tasks THEN TaskNotFound(s, t)
    ELSE IF RunIfBlocks(s.tasks[t], s.results) THEN [s EXCEPT !.skips = @ \cup {t}]
    ELSE LoopHead([s EXCEPT !.entered[t] = @ + 1,
                            !.attempts[t] = 0,
                            !.success[t] = FALSE], t)

executeTask(s, t) ==
    IF engine = "Workflow" /\ ExecuteGuard(s, t) THEN s
    ELSE IF t \notin DOMAIN s.tasks THEN TaskNotFound(s, t)
    ELSE IF RunIfBlocks(s.tasks[t], s.results) THEN [s EXCEPT !.skips = @ \cup {t}]
    ELSE LoopHead([s EXCEPT !.startedTasks = @ \cup {t},
                            !.entered[t] = @ + 1,
                            !.attempts[t] = 0,
                            !.success[t] = FALSE], t)

(***************************************************************************)
(* attemptToStartTask                                                       *)
(***************************************************************************)
\* the guard without its startedTasks half
StartGuardCompletedOnly(s, t) == t \in s.completedTasks

\* `if (this.completedTasks.has(taskName) || this.startedTasks.has(taskName)) return;`
StartGuard(s, t) == t \in s.completedTasks \/ t \in s.startedTasks

DepsOf(s, t) == IF t \in DOMAIN s.dependencyList THEN s.dependencyList[t] ELSE {}

\* no dependency is waited for
DependenciesIgnored(s, t) == TRUE

AllDependenciesCompleted(s, t) == \A d \in DepsOf(s, t) : d \in s.completedTasks

\* Workflow.ts: some branch of a dependency that names t has a false condition
BranchBlocks(s, t) ==
    \E d \in DepsOf(s, t) : \E i \in DOMAIN s.tasks[d].branches :
        /\ t \in s.tasks[d].branches[i].next
        /\ ~Condition(s.tasks[d].branches[i], d, s.results)

\* no listener is registered
SubscribeToNone(s, t) == s

\* Workflow.ts: one more `task-completed:dep` listener for every dependency
Subscribe(s, t) ==
    [s EXCEPT !.listeners =
        [p \in DOMAIN @ |-> IF p[2] = t /\ p[1] \in DepsOf(s, t) THEN @[p] + 1 ELSE @[p]]]

attemptToStartTask(s, t) ==
    IF StartGuard(s, t) THEN [s EXCEPT !.guardHits[t] = @ + 1]
    ELSE IF engine = "Workflow"
    THEN IF ~AllDependenciesCompleted(s, t) THEN Subscribe(s, t)
         ELSE IF BranchBlocks(s, t) THEN s
         ELSE executeTask(s, t)
    ELSE IF t \notin DOMAIN s.dependencyList THEN s
         ELSE IF AllDependenciesCompleted(s, t) THEN executeTask(s, t)
         ELSE s

RECURSIVE Repeat(_, _, _)
\* n calls of attemptToStartTask(t), one per registered listener
Repeat(s, t, n) == IF n = 0 THEN s ELSE Repeat(attemptToStartTask(s, t), t, n - 1)

\* one task at a time: only one name of S is attempted
AttemptOne(s, S) ==
    IF S = {} THEN s ELSE attemptToStartTask(s, CHOOSE x \in S : TRUE)

RECURSIVE AttemptAll(_, _)
\* attemptToStartTask for every name of S (the calls touch disjoint state)
AttemptAll(s, S) ==
    IF S = {} THEN s
    ELSE LET t == CHOOSE x \in S : TRUE
         IN  AttemptAll(attemptToStartTask(s, t), S \ {t})

(***************************************************************************)
(* Completion: what follows `await this.withTimeout(task.action(), ...)`    *)
(***************************************************************************)
\* Workflow2: eventEmitter.emit(`start-task:${taskName}`) for every name of S
EmitStart(s, from, S) ==
    AttemptAll([s EXCEPT !.signals[from] = @ \cup S], S \cap startListeners)

MatchedBranches(task, owner, res) ==
    {i \in DOMAIN task.branches : Condition(task.branches[i], owner, res)}

\* Workflow2.triggerNextTasks, for a task whose `next` is absent or a list
triggerNextTasks(s, t) ==
    LET task == s.tasks[t]
        s1 == EmitStart([s EXCEPT !.evaluated[t] = s.results], t, task.next.names)
        matched == MatchedBranches(task, t, s.results)
        s2 == EmitStart(s1, t, UNION {task.branches[i].next : i \in matched})
    IN  IF matched = {} THEN EmitStart(s2, t, task.default) ELSE s2

\* Workflow.ts: eventEmitter.emit(`task-completed:${taskName}`)
RECURSIVE EmitCompletedTo(_, _, _, _)
EmitCompletedTo(s, snapshot, t, S) ==
    IF S = {} THEN s
    ELSE LET x == CHOOSE y \in S : TRUE
         IN  EmitCompletedTo(Repeat(s, x, snapshot[<<t, x>>]), snapshot, t, S \ {x})

\* the listeners of the event are copied before they are called; a `once`
\* listener is removed when it is called
EmitCompleted(s, t) ==
    LET snapshot == [p \in Names \X Names |-> s.listeners[p] + s.onceListeners[p]]
        targets == {x \in Names : snapshot[<<t, x>>] > 0}
        s1 == [s EXCEPT !.signals[t] = @ \cup targets,
                        !.onceListeners = [p \in DOMAIN @ |-> IF p[1] = t THEN 0 ELSE @[p]]]
    IN  EmitCompletedTo(s1, snapshot, t, targets)

\* Workflow.ts: checkIfAllTasksCompleted
AllTasksCompleted(s) == Cardinality(DOMAIN s.tasks) = Cardinality(s.completedTasks)

checkIfAllTasksCompleted(s) ==
    IF AllTasksCompleted(s)
    THEN [s EXCEPT !.workflowLog = Append(@, "WorkflowCompleted")]
    ELSE s

\* the end of the catch block: `if (attempts < maxAttempts) await wait(delay)`
AfterOnError(s, t) ==
    IF s.attempts[t] < RetryMaxAttempts(s.tasks[t])
    THEN [s EXCEPT !.pc[t] = "wait",
                   !.delays[t] = Append(@, <<s.attempts[t], RetryDelay(s.tasks[t])>>)]
    ELSE LoopHead(s, t)

\* `task.onError && await task.onError(...)`: a hook that throws ends executeTask
\* with that error, one that returns is awaited
AfterOnTaskError(s, t) ==
    CASE s.tasks[t].onError = "throws" ->
            [Call(s, t, "onError") EXCEPT !.pc[t] = "rejected", !.rejected[t] = "onError hook"]
      [] s.tasks[t].onError = "returns" -> Call(s, t, "onError")
      [] OTHER -> AfterOnError(s, t)

\* the catch block: the TaskFailed entry, then
\* `this.onTaskError && await this.onTaskError(...)` and the task's onError
CatchBlock(s, t, error) ==
    LET s1 == [s EXCEPT !.taskLogs[t] =
                   Append(@, LogEntry("TaskFailed", s.attempts[t], "Failed", error))]
    IN  IF options.onTaskError THEN Call(s1, t, "onTaskError") ELSE AfterOnTaskError(s1, t)

\* the end of the try block: `success = true`, then the completion event
\* (Workflow.ts) or triggerNextTasks (Workflow2)
AfterOnComplete(s, t) ==
    LET s1 == [s EXCEPT !.success[t] = TRUE]
    IN  IF engine = "Workflow"
        THEN LoopHead(checkIfAllTasksCompleted(EmitCompleted(s1, t)), t)
        ELSE IF s.tasks[t].next.kind = "string"
             \* "name".forEach is not a function: triggerNextTasks throws inside the try
             THEN CatchBlock(s1, t, "TypeError")
             ELSE LoopHead(triggerNextTasks(s1, t), t)

\* `task.onComplete && await task.onComplete(result)`: a hook that throws is
\* caught by the catch block of the attempt, one that returns is awaited
AfterOnTaskComplete(s, t) ==
    CASE s.tasks[t].onComplete = "none" -> AfterOnComplete(s, t)
      [] s.tasks[t].onComplete = "throws" ->
            CatchBlock(Call(s, t, "onComplete"), t, "onComplete hook")
      [] OTHER -> Call(s, t, "onComplete")

\* the try block after the action resolved with result r: the task is recorded
\* as completed, then `this.onTaskComplete && await this.onTaskComplete(task)`
OnResolved(s, t, r) ==
    LET s1 == [s EXCEPT !.completedTasks = @ \cup {t},
                        !.results[t] = r,
                        !.recorded[t] = [s.results EXCEPT ![t] = r],
                        !.taskLogs[t] = Append(@, LogEntry("TaskCompleted", s.attempts[t], "Completed", ""))]
    IN  IF options.onTaskComplete THEN Call(s1, t, "onTaskComplete")
        ELSE AfterOnTaskComplete(s1, t)

(***************************************************************************)
(* addTask (Workflow.ts)                                                    *)
(***************************************************************************)
\* this.logs.tasks exists once some executeTask has passed its guards
LogsTasksDefined(s) == s.startedTasks # {}

\* how the call ends: with the TypeError of a write to the undefined this.logs.tasks,
\* as a logged duplicate, with the missing-dependency error, or normally
AddOutcome(s, name, task) ==
    CASE ~LogsTasksDefined(s) -> "TypeError"
      [] name \in DOMAIN s.tasks -> "duplicate"
      [] \E dep \in task.dependencies : dep \notin DOMAIN s.tasks \cup {name} -> "ConfigError"
      [] task.dependencies # {} -> "waiting"
      [] OTHER -> "attempted"

\* this.tasks[task.name] = task
Register(s, name, task) == [s EXCEPT !.tasks = (name :> task) @@ s.tasks]

AddEntry(s, name, event, st) ==
    [s EXCEPT !.taskLogs[name] = Append(@, LogEntry(event, 0, st, ""))]

\* the dependencyList entry without the listeners
RegisterDependenciesUnsubscribed(s, name, task) ==
    [s EXCEPT !.dependencyList = (name :> task.dependencies) @@ s.dependencyList,
              !.taskLogs[name] = Append(@, LogEntry("DependenciesRegistered", 0, "Waiting", ""))]

\* this.dependencyList[task.name] = task.dependencies, then one `once` listener
\* for every dependency
RegisterDependencies(s, name, task) ==
    [s EXCEPT !.dependencyList = (name :> task.dependencies) @@ s.dependencyList,
              !.taskLogs[name] = Append(@, LogEntry("DependenciesRegistered", 0, "Waiting", "")),
              !.onceListeners =
                  [p \in DOMAIN @ |->
                      IF p[2] = name /\ p[1] \in task.dependencies THEN @[p] + 1 ELSE @[p]]]

addTask(s, name, task) ==
    LET outcome == AddOutcome(s, name, task)
        added == AddEntry(Register(s, name, task), name, "TaskAdded", "Pending")
    IN  CASE outcome = "TypeError" ->
                IF name \in DOMAIN s.tasks THEN s ELSE Register(s, name, task)
          [] outcome = "duplicate" -> AddEntry(s, name, "TaskAlreadyExists", "Skipped")
          [] outcome = "ConfigError" -> added
          [] outcome = "waiting" -> RegisterDependencies(added, name, task)
          [] OTHER -> attemptToStartTask(added, name)

(***************************************************************************)
(* Workflows given to the constructor                                       *)
(***************************************************************************)
Single == [t \in {"A"} |-> Leaf]

Independent == [t \in {"A", "B"} |-> Leaf]

ChainArray ==
    [t \in {"A", "B"} |-> IF t = "A" THEN Task(NextArray({"B"}), <<>>, {}, {}) ELSE Leaf]

ChainString ==
    [t \in {"A", "B"} |-> IF t = "A" THEN Task(NextString("B"), <<>>, {}, {}) ELSE Leaf]

Join ==
    [t \in {"A", "B", "C"} |->
        IF t = "C" THEN Leaf ELSE Task(NextArray({"C"}), <<>>, {}, {})]

DeclaredOne ==
    [t \in {"A", "B"} |-> IF t = "B" THEN Task(NoNext, <<>>, {}, {"A"}) ELSE Leaf]

DeclaredTwo ==
    [t \in {"A", "B", "C"} |->
        IF t = "C" THEN Task(NoNext, <<>>, {}, {"A", "B"}) ELSE Leaf]

Branching ==
    [t \in {"A", "B", "C", "D", "E"} |->
        IF t = "A"
        THEN Task(NoNext, <<Branch({"a"}, {"B", "C"}), Branch({"b"}, {"D"})>>, {"E"}, {})
        ELSE Leaf]

BranchingNextString ==
    [Branching EXCEPT !["A"].next = NextString("D")]

BranchingNextArray ==
    [Branching EXCEPT !["A"].next = NextArray({"D"})]

\* C is a default target of A and a branch target of B; A and B are roots
DefaultFanIn ==
    [t \in {"A", "B", "C", "D"} |->
        CASE t = "A" -> Task(NoNext, <<Branch({"a"}, {"D"})>>, {"C"}, {})
          [] t = "B" -> Task(NoNext, <<Branch({"a"}, {"C"})>>, {}, {})
          [] OTHER -> Leaf]

\* C is a branch target of both A and B, and both branches of A name C
BranchFanIn ==
    [t \in {"A", "B", "C"} |->
        CASE t = "A" -> Task(NoNext, <<Branch({"a"}, {"C"}), Branch({"a", "b"}, {"C"})>>, {}, {})
          [] t = "B" -> Task(NoNext, <<Branch({"a"}, {"C"})>>, {}, {})
          [] OTHER -> Leaf]

\* README, advanced example: validateUser (A), processData (B), abort (C), finalize (D)
Advanced ==
    [t \in {"A", "B", "C", "D"} |->
        CASE t = "A" -> Task(NoNext, <<Branch({"a"}, {"B"}), Branch({"b"}, {"C"})>>, {}, {})
          [] t \in {"B", "C"} -> Task(NextArray({"D"}), <<>>, {}, {})
          [] OTHER -> Leaf]

\* README, branching logic: start (A) with a branch to taskA (B) and taskB (C)
\* and another, on another result, to taskB alone
BranchingLogic ==
    [t \in {"A", "B", "C"} |->
        IF t = "A"
        THEN Task(NoNext, <<Branch({"a"}, {"B", "C"}), Branch({"b"}, {"C"})>>, {}, {})
        ELSE Leaf]

\* the join with next written as a single name
JoinString ==
    [t \in {"A", "B", "C"} |->
        IF t = "C" THEN Leaf ELSE Task(NextString("C"), <<>>, {}, {})]

\* A's next names C, which is not a task of the workflow
DanglingNext ==
    [t \in {"A", "B"} |-> IF t = "A" THEN Task(NextArray({"C"}), <<>>, {}, {}) ELSE Leaf]

Shapes ==
    {Single, Independent, ChainArray, ChainString, Join, DeclaredOne, DeclaredTwo,
     Branching, BranchingNextString, BranchingNextArray, DefaultFanIn, BranchFanIn,
     Advanced, DanglingNext, BranchingLogic, JoinString}

\* one task of the workflow gets a retry policy, a timeout, a runIf or hooks
Policies ==
    [hasRetry : {FALSE}, maxAttempts : {1}, delay : {0}, hasTimeout : BOOLEAN,
     runIf : {"none"}, onError : {"none"}, onStart : {"none"}, onComplete : {"none"}]
    \cup [hasRetry : {TRUE}, maxAttempts : 1..MaxAttempts, delay : Delays,
          hasTimeout : BOOLEAN, runIf : {"none"}, onError : {"none"},
          onStart : {"none"}, onComplete : {"none"}]
    \cup [hasRetry : {FALSE}, maxAttempts : {1}, delay : {0}, hasTimeout : {FALSE},
          runIf : {"false", "ifA"}, onError : {"none"}, onStart : {"none"},
          onComplete : {"none"}]
    \cup [hasRetry : {FALSE}, maxAttempts : {1}, delay : {0}, hasTimeout : BOOLEAN,
          runIf : {"none"}, onError : {"returns", "throws"}, onStart : {"none"},
          onComplete : {"none"}]
    \cup [hasRetry : {TRUE}, maxAttempts : {MaxAttempts}, delay : {0}, hasTimeout : {FALSE},
          runIf : {"none"}, onError : {"returns", "throws"}, onStart : {"none"},
          onComplete : {"none"}]
    \cup [hasRetry : {FALSE}, maxAttempts : {1}, delay : {0}, hasTimeout : {FALSE},
          runIf : {"none", "false"}, onError : {"returns"}, onStart : {"returns"},
          onComplete : {"returns"}]
    \cup [hasRetry : BOOLEAN, maxAttempts : {MaxAttempts}, delay : {0}, hasTimeout : {FALSE},
          runIf : {"none"}, onError : {"none"}, onStart : {"none"},
          onComplete : {"throws"}]

WithPolicy(w, t, p) ==
    [w EXCEPT ![t].hasRetry = p.hasRetry, ![t].maxAttempts = p.maxAttempts,
              ![t].delay = p.delay, ![t].hasTimeout = p.hasTimeout,
              ![t].runIf = p.runIf, ![t].onError = p.onError,
              ![t].onStart = p.onStart, ![t].onComplete = p.onComplete]

Workflows == UNION {{WithPolicy(w, t, p) : t \in DOMAIN w, p \in Policies} : w \in Shapes}

(***************************************************************************)
(* The constructor                                                          *)
(***************************************************************************)
\* the fields the constructor sets, for the tasks it is given
Constructed ==
    /\ dependencyList = createDependencyList(tasks)
    /\ startedTasks = {}
    /\ completedTasks = {}
    /\ results = [t \in Names |-> NoResult]
    /\ status = "Pending"
    /\ taskLogs = [t \in Names |-> <<>>]
    /\ workflowLog = <<>>
    /\ listeners = [p \in Names \X Names |-> 0]
    /\ startListeners = {}
    /\ startPc = "new"
    /\ pc = [t \in Names |-> "idle"]
    /\ attempts = [t \in Names |-> 0]
    /\ success = [t \in Names |-> FALSE]
    /\ actionCalls = [t \in Names |-> 0]
    /\ entered = [t \in Names |-> 0]
    /\ guardHits = [t \in Names |-> 0]
    /\ signals = [t \in Names |-> {}]
    /\ delays = [t \in Names |-> <<>>]
    /\ outcomes = [t \in Names |-> <<>>]
    /\ onceListeners = [p \in Names \X Names |-> 0]
    /\ rejected = [t \in Names |-> ""]
    /\ addLog = <<>>
    /\ hookCalls = [t \in Names |-> <<>>]
    /\ skips = {}
    /\ recorded = [t \in Names |-> <<>>]
    /\ evaluated = [t \in Names |-> <<>>]
    /\ late = [t \in Names |-> "none"]

\* the workflows of the runs in which a callback of the application adds a task
DynamicShapes == {Single, Independent, ChainArray, DanglingNext}

AddCall(name, task) == [name |-> name, task |-> task]

AddCalls ==
    {AddCall("A", Leaf),
     AddCall("B", Task(NoNext, <<>>, {}, {"A"})),
     AddCall("E", Leaf),
     AddCall("E", Task(NoNext, <<>>, {}, {"A"})),
     AddCall("E", Task(NoNext, <<>>, {}, {"A", "B"})),
     AddCall("E", Task(NextArray({"B"}), <<>>, {}, {})),
     AddCall("C", Leaf),
     AddCall("C", Task(NoNext, <<>>, {}, {"B"})),
     AddCall("C", Task(NoNext, <<>>, {}, {"D"}))}

\* E is added with a dependency that does not exist, then again without any
AddTwice == <<AddCall("E", Task(NoNext, <<>>, {}, {"D"})), AddCall("E", Leaf)>>

\* part_002 has no addTask
Plans(e, ts) ==
    IF e = "Workflow" /\ ts \in DynamicShapes
    THEN {<<>>} \cup {<<call>> : call \in AddCalls} \cup {AddTwice}
    ELSE {<<>>}

\* the workflow-level hooks of the constructor's options: none, or all three
NoOptions == [onTaskStart |-> FALSE, onTaskComplete |-> FALSE, onTaskError |-> FALSE]

AllOptions == [onTaskStart |-> TRUE, onTaskComplete |-> TRUE, onTaskError |-> TRUE]

\* workflow-level hooks are given where a task has hooks of its own
Options(ts) ==
    IF \E t \in DOMAIN ts : ts[t].onStart # "none"
    THEN {NoOptions, AllOptions}
    ELSE {NoOptions}

Init ==
    /\ engine \in Engines
    /\ tasks \in Workflows
    /\ plan \in Plans(engine, tasks)
    /\ options \in Options(tasks)
    /\ Constructed

(***************************************************************************)
(* start()                                                                  *)
(***************************************************************************)
\* the test `length == 0` inverted
RootsInverted == {k \in DOMAIN dependencyList : dependencyList[k] # {}}

\* the empty-dependency names Workflow2.start attempts after its await
Roots == {k \in DOMAIN dependencyList : dependencyList[k] = {}}

\* start() up to its `await Promise.all(...)`
Start ==
    /\ startPc = "new"
    /\ startPc' = "awaiting"
    /\ LET s0 == [Cur EXCEPT !.workflowLog = Append(@, "StartedWorkflow")]
       IN  IF engine = "Workflow"
           THEN /\ Commit(AttemptAll(s0, DOMAIN dependencyList))
                /\ UNCHANGED startListeners
           ELSE /\ Commit(s0)
                /\ startListeners' = DOMAIN dependencyList
    /\ UNCHANGED <<engine, status, options, late, plan, addLog, outcomes>>

\* start() after the await, to its return
StartResume ==
    /\ startPc = "awaiting"
    /\ startPc' = "resolved"
    /\ IF engine = "Workflow"
       THEN Commit(Cur)
       ELSE Commit(AttemptAll(Cur, Roots))
    /\ UNCHANGED <<engine, status, options, late, plan, addLog, startListeners, outcomes>>

(***************************************************************************)
(* The awaits of executeTask                                                *)
(***************************************************************************)
\* the action's promise resolves with r
ActionResolves(t, r) ==
    /\ pc[t] = "action"
    /\ r \in ResultChoices(tasks[t])
    /\ Commit(OnResolved(Cur, t, r))
    /\ outcomes' = [outcomes EXCEPT ![t] = Append(@, "ok")]
    /\ UNCHANGED <<engine, status, options, late, plan, addLog, startListeners, startPc>>

\* the action's promise rejects
ActionRejects(t) ==
    /\ pc[t] = "action"
    /\ Commit(CatchBlock(Cur, t, "action error"))
    /\ outcomes' = [outcomes EXCEPT ![t] = Append(@, "err")]
    /\ UNCHANGED <<engine, status, options, late, plan, addLog, startListeners, startPc>>

\* withTimeout: `timeout ?? Infinity` races the action only when a timeout is set
TimeoutArmed(task) == task.hasTimeout

TimeoutError == "Task timed out"

\* the timer of withTimeout rejects first: the action has not settled
ActionTimesOut(t) ==
    /\ pc[t] = "action"
    /\ TimeoutArmed(tasks[t])
    /\ Commit(CatchBlock(Cur, t, TimeoutError))
    /\ outcomes' = [outcomes EXCEPT ![t] = Append(@, "hang")]
    /\ late' = [late EXCEPT ![t] = "pending"]
    /\ UNCHANGED <<engine, status, options, plan, addLog, startListeners, startPc>>

\* a settlement handled as if the race were still open: the result is recorded
OnLateSettlementRecorded(s, t, r) ==
    [s EXCEPT !.completedTasks = @ \cup {t}, !.results[t] = r]

\* Promise.race has settled with the timer's rejection: what the action's promise
\* does afterwards reaches no continuation of executeTask
OnLateSettlement(s, t, r) == s

\* the action of an attempt that timed out resolves or rejects after all
LateSettles(t, r) ==
    /\ late[t] = "pending"
    /\ r \in ResultChoices(tasks[t]) \cup {"rejection"}
    /\ Commit(OnLateSettlement(Cur, t, r))
    /\ late' = [late EXCEPT ![t] = "settled"]
    /\ UNCHANGED <<engine, status, options, plan, addLog, startListeners, startPc, outcomes>>

\* the application calls addTask: before start(), from a callback the engine
\* dispatched, or later
AddTask ==
    /\ plan # <<>>
    /\ LET call == Head(plan)
       IN  /\ Commit(addTask(Cur, call.name, call.task))
           /\ addLog' = Append(addLog,
                  [name |-> call.name, task |-> call.task,
                   outcome |-> AddOutcome(Cur, call.name, call.task),
                   known |-> DOMAIN tasks,
                   started |-> startedTasks,
                   completed |-> completedTasks,
                   derived |-> DepsOf(Cur, call.name)])
    /\ plan' = Tail(plan)
    /\ UNCHANGED <<engine, status, options, late, startListeners, startPc, outcomes>>

\* `await this.onTaskStart(task)` returns: on to the task's onStart
OnTaskStartReturns(t) ==
    /\ pc[t] = "onTaskStart"
    /\ Commit(AfterOnTaskStart(Cur, t))
    /\ UNCHANGED <<engine, status, options, late, plan, addLog, startListeners, startPc, outcomes>>

\* `await task.onStart(task)` returns: the action is invoked
OnStartReturns(t) ==
    /\ pc[t] = "onStart"
    /\ Commit(CallAction(Cur, t))
    /\ UNCHANGED <<engine, status, options, late, plan, addLog, startListeners, startPc, outcomes>>

\* `await this.onTaskComplete(task)` returns: on to the task's onComplete
OnTaskCompleteReturns(t) ==
    /\ pc[t] = "onTaskComplete"
    /\ Commit(AfterOnTaskComplete(Cur, t))
    /\ UNCHANGED <<engine, status, options, late, plan, addLog, startListeners, startPc, outcomes>>

\* `await task.onComplete(result)` returns: on to the end of the try block
OnCompleteReturns(t) ==
    /\ pc[t] = "onComplete"
    /\ Commit(AfterOnComplete(Cur, t))
    /\ UNCHANGED <<engine, status, options, late, plan, addLog, startListeners, startPc, outcomes>>

\* `await this.onTaskError(...)` returns: on to the task's onError
OnTaskErrorReturns(t) ==
    /\ pc[t] = "onTaskError"
    /\ Commit(AfterOnTaskError(Cur, t))
    /\ UNCHANGED <<engine, status, options, late, plan, addLog, startListeners, startPc, outcomes>>

\* `await task.onError(...)` returns: on to the end of the catch block
OnErrorReturns(t) ==
    /\ pc[t] = "onError"
    /\ Commit(AfterOnError(Cur, t))
    /\ UNCHANGED <<engine, status, options, late, plan, addLog, startListeners, startPc, outcomes>>

\* `await wait(delay)` returns: back to the loop condition
WaitElapses(t) ==
    /\ pc[t] = "wait"
    /\ Commit(LoopHead(Cur, t))
    /\ UNCHANGED <<engine, status, options, late, plan, addLog, startListeners, startPc, outcomes>>

Next ==
    \/ Start
    \/ StartResume
    \/ \E t \in DOMAIN tasks : \E r \in {"a", "b", "other"} : ActionResolves(t, r)
    \/ \E t \in DOMAIN tasks : ActionRejects(t)
    \/ \E t \in DOMAIN tasks : ActionTimesOut(t)
    \/ \E t \in DOMAIN tasks : \E r \in {"a", "b", "other", "rejection"} : LateSettles(t, r)
    \/ \E t \in DOMAIN tasks : OnTaskStartReturns(t)
    \/ \E t \in DOMAIN tasks : OnStartReturns(t)
    \/ \E t \in DOMAIN tasks : OnTaskCompleteReturns(t)
    \/ \E t \in DOMAIN tasks : OnCompleteReturns(t)
    \/ \E t \in DOMAIN tasks : OnTaskErrorReturns(t)
    \/ \E t \in DOMAIN tasks : OnErrorReturns(t)
    \/ \E t \in DOMAIN tasks : WaitElapses(t)
    \/ AddTask

Spec == Init /\ [][Next]_vars

(***************************************************************************)
(* Runs of Workflow.ts in which the tasks are linked by next only and every *)
(* action succeeds within its retry budget: an attempt fails or times out   *)
(* only while attempts remain. Whatever is awaited is eventually resumed.   *)
(***************************************************************************)
Diamond ==
    [t \in {"A", "B", "C", "D"} |->
        CASE t = "A" -> Task(NextArray({"B", "C"}), <<>>, {}, {})
          [] t \in {"B", "C"} -> Task(NextArray({"D"}), <<>>, {}, {})
          [] OTHER -> Leaf]

NextOnlyShapes == {Single, Independent, ChainArray, ChainString, Join, Diamond}

\* one task may fail and be retried, with or without a timeout; the hooks of
\* these runs return
NextOnlyPolicies ==
    {q \in Policies : /\ q.runIf = "none" /\ q.onError # "throws"
                      /\ q.maxAttempts = MaxAttempts /\ q.delay = 0
                      /\ q.onStart = "none" /\ q.onComplete = "none"}

NextOnlyWorkflows ==
    UNION {{WithPolicy(w, t, p) : t \in DOMAIN w, p \in NextOnlyPolicies} : w \in NextOnlyShapes}

NextOnlyInit ==
    /\ engine = "Workflow"
    /\ tasks \in NextOnlyWorkflows
    /\ plan = <<>>
    /\ options = NoOptions
    /\ Constructed

AttemptsRemain(t) == attempts[t] < RetryMaxAttempts(tasks[t])

\* the attempt in flight settles or its timer fires
AttemptEnds(t) ==
    /\ pc[t] = "action"
    /\ \/ \E r \in {"a", "b", "other"} : ActionResolves(t, r)
       \/ AttemptsRemain(t) /\ ActionRejects(t)
       \/ AttemptsRemain(t) /\ ActionTimesOut(t)

NextOnlyNext ==
    \/ Start
    \/ StartResume
    \/ \E t \in DOMAIN tasks : AttemptEnds(t)
    \/ \E t \in DOMAIN tasks : OnErrorReturns(t)
    \/ \E t \in DOMAIN tasks : WaitElapses(t)

\* start() is called, and a pending promise or timer is eventually resumed: no
\* step of these runs disables a step of another task, so the run goes on while
\* a step is possible
NextOnlyFairness == WF_vars(NextOnlyNext)

NextOnlySpec == NextOnlyInit /\ [][NextOnlyNext]_vars /\ NextOnlyFairness

(***************************************************************************)
(* Runs of the README's advanced example in both engines: the workflow has  *)
(* the README's hooks or none, an action resolves, rejects or (init, which  *)
(* has a timeout) times out, and whatever is awaited is eventually resumed. *)
(***************************************************************************)
\* init (A), validateUser (B), processData (C), abort (D), finalize (E)
AdvancedExample ==
    [t \in {"A", "B", "C", "D", "E"} |->
        CASE t = "A" -> [Task(NextArray({"B"}), <<>>, {}, {}) EXCEPT
                            !.hasTimeout = TRUE, !.onComplete = "returns"]
          [] t = "B" -> Task(NoNext, <<Branch({"a"}, {"C"}), Branch({"b"}, {"D"})>>, {}, {})
          [] t \in {"C", "D"} -> Task(NextArray({"E"}), <<>>, {}, {})
          [] OTHER -> Leaf]

AdvancedExampleInit ==
    /\ engine \in Engines
    /\ tasks = AdvancedExample
    /\ plan = <<>>
    /\ options \in {NoOptions, AllOptions}
    /\ Constructed

AdvancedExampleNext ==
    \/ Start
    \/ StartResume
    \/ \E t \in DOMAIN tasks : \E r \in {"a", "b", "other"} : ActionResolves(t, r)
    \/ \E t \in DOMAIN tasks : ActionRejects(t)
    \/ \E t \in DOMAIN tasks : ActionTimesOut(t)
    \/ \E t \in DOMAIN tasks : OnTaskStartReturns(t)
    \/ \E t \in DOMAIN tasks : OnTaskCompleteReturns(t)
    \/ \E t \in DOMAIN tasks : OnCompleteReturns(t)
    \/ \E t \in DOMAIN tasks : OnTaskErrorReturns(t)

\* start() is called and every pending promise is eventually resumed
AdvancedExampleFairness == WF_vars(AdvancedExampleNext)

AdvancedExampleSpec ==
    AdvancedExampleInit /\ [][AdvancedExampleNext]_vars /\ AdvancedExampleFairness

(***************************************************************************)
(* Vocabulary of the properties                                             *)
(***************************************************************************)
\* executeTask(t) has ended without t being completed: retries exhausted, or
\* an onError hook threw
PermanentlyFailed(t) == pc[t] \in {"done", "rejected"} /\ t \notin completedTasks

Entries(t, event) == {i \in DOMAIN taskLogs[t] : taskLogs[t][i].event = event}

HasIncomingNext(t) == \E u \in DOMAIN tasks : t \in tasks[u].next.names

HasIncomingEdge(t) ==
    \E u \in DOMAIN tasks :
        \/ t \in tasks[u].next.names
        \/ t \in tasks[u].default
        \/ \E i \in DOMAIN tasks[u].branches : t \in tasks[u].branches[i].next

\* the join set of t as the specification defines it: declared dependencies
\* and the tasks whose next names t
RequiredPredecessors(t) ==
    IF t \in DOMAIN tasks
    THEN tasks[t].dependencies \cup {p \in DOMAIN tasks : t \in tasks[p].next.names}
    ELSE {}

RECURSIVE RequiredWithin(_, _)
\* the tasks t requires through at most n joins
RequiredWithin(t, n) ==
    IF n = 0 THEN {}
    ELSE RequiredPredecessors(t)
            \cup UNION {RequiredWithin(p, n - 1) : p \in RequiredPredecessors(t)}

Requires(t, f) == f \in RequiredWithin(t, Cardinality(Names))

\* the completion of p sends t a trigger: t is in p's next, in a branch of p
\* whose condition is true, or in p's default when no condition is true
Selects(p, t) ==
    /\ p \in completedTasks
    /\ \/ t \in tasks[p].next.names
       \/ \E i \in MatchedBranches(tasks[p], p, results) : t \in tasks[p].branches[i].next
       \/ MatchedBranches(tasks[p], p, results) = {} /\ t \in tasks[p].default

\* the tasks that addTask registered, and those the constructor was given
AddedTasks == {addLog[i].name : i \in {j \in DOMAIN addLog : addLog[j].name \notin addLog[j].known}}

ConstructorTasks == DOMAIN tasks \ AddedTasks

\* this step is a call of addTask; the record of that call
AddTaskCalled == Len(addLog') = Len(addLog) + 1

ThisCall == addLog'[Len(addLog')]

\* the loop of start() that attempts tasks has run
StartLoopRan == IF engine = "Workflow" THEN startPc # "new" ELSE startPc = "resolved"

(***************************************************************************)
(* C1: a task supplied at construction with declared dependencies never has *)
(* its action invoked before all of them are in completedTasks.             *)
(* The code does not keep this: createDependencyList never reads            *)
(* task.dependencies.                                                       *)
(***************************************************************************)
C1_DeclaredDependenciesGateAction ==
    \A t \in DOMAIN tasks :
        actionCalls[t] > 0 => tasks[t].dependencies \subseteq completedTasks

(***************************************************************************)
(* C2: executeTask passes its started guard at most once per task and run,  *)
(* in both engines; a trigger or completion event that reaches a task that  *)
(* is running, completed or permanently failed starts no new attempt cycle. *)
(***************************************************************************)
C2_PipelineEnteredAtMostOnce ==
    \A t \in DOMAIN tasks :
        /\ entered[t] <= 1
        /\ entered[t] = 1 <=> t \in startedTasks
        /\ actionCalls[t] <= RetryMaxAttempts(tasks[t])

\* C2 witness: a trigger reached a task after it had entered its pipeline
C2_Witness ==
    \E t \in DOMAIN tasks : entered[t] = 1 /\ guardHits[t] > 0

(***************************************************************************)
(* C3 (as amended): every task given to the constructor with empty         *)
(* declared dependencies that no task names in next, in a branch or in      *)
(* default is attempted during start(): unless its runIf is false it has    *)
(* entered its pipeline when the start loop has run, before any completion. *)
(***************************************************************************)
C3_EdgeFreeTasksAttemptedDuringStart ==
    StartLoopRan =>
        \A t \in ConstructorTasks :
            (tasks[t].dependencies = {} /\ ~HasIncomingEdge(t) /\ tasks[t].runIf = "none")
                => /\ t \in startedTasks /\ entered[t] = 1
                   /\ actionCalls[t] >= 1 \/ pc[t] \in {"onTaskStart", "onStart"}

\* C3 witness: the start loop has just run: a root is running, nothing has completed, and
\* a task with an incoming edge is left waiting
C3_Witness ==
    /\ StartLoopRan
    /\ completedTasks = {}
    /\ \A t \in DOMAIN tasks : outcomes[t] = <<>>
    /\ \E t \in DOMAIN tasks :
          tasks[t].dependencies = {} /\ ~HasIncomingEdge(t) /\ pc[t] = "action"
    /\ \E t \in DOMAIN tasks : HasIncomingEdge(t) /\ t \notin startedTasks

\* C3 as written: no incoming next edge is enough (a task named only in a
\* branch or in default counts as a root)
C3_NoNextEdgeAttemptedDuringStart ==
    startPc = "resolved" =>
        \A t \in DOMAIN tasks :
            (tasks[t].dependencies = {} /\ ~HasIncomingNext(t) /\ tasks[t].runIf = "none")
                => t \in startedTasks

(***************************************************************************)
(* C4: in Workflow2, when a task completes with some branch condition true  *)
(* (p1 true, p2 false), every target of a true branch has been sent a       *)
(* trigger, a target named only in false branches has not, and no default   *)
(* target has.                                                              *)
(* The code does not keep this when the task's next is a single name.       *)
(***************************************************************************)
C4_MatchedBranchTargetsTriggered ==
    \A p \in DOMAIN tasks :
        LET matched == {i \in DOMAIN tasks[p].branches : results[p] \in tasks[p].branches[i].when}
            hit == UNION {tasks[p].branches[i].next : i \in matched}
            missed == UNION {tasks[p].branches[i].next : i \in DOMAIN tasks[p].branches \ matched}
        IN  (engine = "Workflow2" /\ p \in completedTasks /\ matched # {}) =>
                /\ hit \subseteq signals[p]
                /\ (missed \ (hit \cup tasks[p].next.names)) \cap signals[p] = {}
                /\ (tasks[p].default \ (hit \cup tasks[p].next.names)) \cap signals[p] = {}

(***************************************************************************)
(* C5: when a task completes with no branch condition true and a non-empty  *)
(* default list, that completion starts every default target and starts no  *)
(* target that appears only in a branch.                                    *)
(* The code does not keep this: a default target also waits for every other *)
(* task that names it, and in Workflow2 a single-name next stops the        *)
(* triggering altogether.                                                   *)
(***************************************************************************)
C5_DefaultTargetsStartedStep ==
    \A p \in DOMAIN tasks :
        LET task == tasks[p]
            branchOnly == BranchTargets(task) \ (task.default \cup task.next.names)
        IN  (/\ p \in completedTasks' \ completedTasks
             /\ task.default # {}
             /\ \A i \in DOMAIN task.branches : results'[p] \notin task.branches[i].when)
            => /\ \A d \in task.default :
                    (d \in DOMAIN tasks /\ tasks[d].runIf = "none") => d \in startedTasks'
               /\ branchOnly \cap (startedTasks' \ startedTasks) = {}

\* C5, over every step: the statement above holds of each completion
C5_DefaultTargetsStarted == [][C5_DefaultTargetsStartedStep]_vars

(***************************************************************************)
(* C6: a task whose action fails on its first k attempts and then succeeds  *)
(* (k < maxAttempts) ends in completedTasks with k+1 logged attempts        *)
(* (TaskStarted 1..k+1, TaskFailed 1..k, TaskCompleted k+1), one wait of    *)
(* at least `delay` after each of the k failed attempts and before the next *)
(* one, and no attempt after the successful one.                            *)
(* The code does not keep this for a task whose onComplete hook throws: the *)
(* attempt that succeeded is logged as failed and the action is run again   *)
(* (see C34).                                                               *)
(***************************************************************************)
C6_RetryThenSuccess ==
    \A t \in DOMAIN tasks :
        t \in completedTasks =>
            LET k == Len(outcomes[t]) - 1
                between == {i \in DOMAIN delays[t] : delays[t][i][1] <= k}
            IN  /\ k >= 0 /\ k < RetryMaxAttempts(tasks[t])
                /\ outcomes[t][k + 1] = "ok"
                /\ \A i \in 1..k : outcomes[t][i] # "ok"
                /\ actionCalls[t] = k + 1
                /\ attempts[t] = k + 1
                /\ {taskLogs[t][i].attempt : i \in Entries(t, "TaskStarted")} = 1..(k + 1)
                /\ Cardinality(Entries(t, "TaskStarted")) = k + 1
                /\ \A j \in 1..k : \E i \in Entries(t, "TaskFailed") : taskLogs[t][i].attempt = j
                /\ \E i \in Entries(t, "TaskCompleted") : taskLogs[t][i].attempt = k + 1
                /\ Cardinality(Entries(t, "TaskCompleted")) = 1
                /\ Cardinality(between) = k
                /\ \A j \in 1..k : \E i \in between : delays[t][i][1] = j
                /\ \A i \in between :
                      tasks[t].hasRetry => delays[t][i][2] >= tasks[t].delay
                /\ pc[t] # "action"

\* C6 witness, the spec's case: maxAttempts 3, delay 500, two failures, then success
C6_Witness ==
    \E t \in DOMAIN tasks :
        /\ tasks[t].hasRetry /\ tasks[t].maxAttempts = 3 /\ tasks[t].delay = 500
        /\ t \in completedTasks
        /\ Len(outcomes[t]) = 3
        /\ Len(delays[t]) = 2
        /\ pc[t] = "done"

(***************************************************************************)
(* C7: for a task with a timeout, every attempt whose action does not       *)
(* settle ends as a failed attempt whose TaskFailed entry cites the         *)
(* timeout; when all maxAttempts attempts ended so, the task is left failed *)
(* (last entry TaskFailed with status Failed, not completed) and no further *)
(* attempt is made.                                                         *)
(***************************************************************************)
C7_TimeoutFailsAttempts ==
    \A t \in DOMAIN tasks :
        /\ \A k \in DOMAIN outcomes[t] :
              outcomes[t][k] = "hang" =>
                  /\ tasks[t].hasTimeout
                  /\ \E i \in Entries(t, "TaskFailed") :
                        /\ taskLogs[t][i].attempt = k
                        /\ taskLogs[t][i].error = "Task timed out"
                        /\ taskLogs[t][i].status = "Failed"
                        /\ i > 1 /\ taskLogs[t][i - 1] = LogEntry("TaskStarted", k, "Started", "")
        /\ (/\ Len(outcomes[t]) = RetryMaxAttempts(tasks[t])
            /\ \A k \in DOMAIN outcomes[t] : outcomes[t][k] = "hang")
           => /\ t \notin completedTasks
              /\ pc[t] \notin {"action", "wait"}
              /\ actionCalls[t] = RetryMaxAttempts(tasks[t])
              /\ taskLogs[t][Len(taskLogs[t])].event = "TaskFailed"
              /\ taskLogs[t][Len(taskLogs[t])].status = "Failed"
              /\ Cardinality(Entries(t, "TaskFailed")) = RetryMaxAttempts(tasks[t])

\* C7 witness: three attempts of one task timed out and the task is left failed
C7_Witness ==
    \E t \in DOMAIN tasks :
        /\ tasks[t].hasTimeout /\ tasks[t].hasRetry /\ tasks[t].maxAttempts = 3
        /\ outcomes[t] = <<"hang", "hang", "hang">>
        /\ PermanentlyFailed(t)

(***************************************************************************)
(* C8: once the completed and the permanently failed tasks cover the task   *)
(* set, the workflow status is Completed and the workflow log holds a       *)
(* WorkflowCompleted entry.                                                 *)
(* The code does not keep this: status is never assigned after the          *)
(* constructor, and the entry is written only when every task completed.    *)
(***************************************************************************)
C8_CoveredMeansCompleted ==
    (\A t \in DOMAIN tasks : pc[t] = "done")
        => /\ status = "Completed"
           /\ \E i \in DOMAIN workflowLog : workflowLog[i] = "WorkflowCompleted"

(***************************************************************************)
(* C9: the promise returned by start() resolves only once every task has    *)
(* finished.                                                                *)
(* The code does not keep this: start() returns after attempting to start   *)
(* the tasks.                                                               *)
(***************************************************************************)
C9_StartResolvesAfterCompletion ==
    startPc = "resolved" => \A t \in DOMAIN tasks : pc[t] = "done"

(***************************************************************************)
(* C10: once task A has failed permanently and B declares dependencies [A], *)
(* B is not started, the workflow log has no WorkflowCompleted entry, A's   *)
(* log shows the failure and B's log has no TaskStarted entry.              *)
(* The code does not keep this for a B given to the constructor (see C1).   *)
(***************************************************************************)
C10_DependentOfFailedNeverStarts ==
    \A a, b \in DOMAIN tasks :
        (tasks[b].dependencies = {a} /\ PermanentlyFailed(a)) =>
            /\ b \notin startedTasks
            /\ Entries(b, "TaskStarted") = {}
            /\ Entries(a, "TaskFailed") # {}
            /\ \A i \in DOMAIN workflowLog : workflowLog[i] # "WorkflowCompleted"

(***************************************************************************)
(* C11: no call of executeTask ends with a thrown error or a rejected       *)
(* promise: a failing or timed-out attempt is caught, logged as TaskFailed  *)
(* and retried per policy, and exhaustion only leaves the task failed.      *)
(* The code does not keep this: an onError hook that throws leaves the      *)
(* catch block with its error, and executeTask of a name that an edge       *)
(* mentions but no task bears is rejected.                                  *)
(***************************************************************************)
C11_NoExceptionEscapes ==
    \A t \in Names : rejected[t] = ""

(***************************************************************************)
(* C12: a permanently failed task aborts nothing: a task that does not      *)
(* require the failed task, directly or through other joins, is started     *)
(* once its own required predecessors are complete and a completed task has *)
(* sent it a trigger (or it is a root and start() has run).                 *)
(* The code does not keep this: a branch or default target waits for every  *)
(* task that names it, the failed one included (see C5).                    *)
(***************************************************************************)
C12_FailedTaskBlocksOnlyItsDependents ==
    \A f, t \in DOMAIN tasks :
        (/\ PermanentlyFailed(f)
         /\ t # f /\ ~Requires(t, f)
         /\ RequiredPredecessors(t) \subseteq completedTasks
         /\ tasks[t].runIf = "none"
         /\ StartLoopRan
         /\ \/ ~HasIncomingEdge(t)
            \/ \E p \in DOMAIN tasks : Selects(p, t))
        => t \in startedTasks

(***************************************************************************)
(* C13: in Workflow.ts, in a run of an acyclic workflow linked by next only *)
(* whose actions all succeed within their retry budget, eventually every    *)
(* task is in completedTasks and the workflow log holds a WorkflowCompleted *)
(* entry (action completions, timers and awaited hooks being fair).         *)
(***************************************************************************)
C13_AllCompleted ==
    /\ completedTasks = DOMAIN tasks
    /\ \E i \in DOMAIN workflowLog : workflowLog[i] = "WorkflowCompleted"

C14_DuplicateNameStep ==
    (AddTaskCalled /\ ThisCall.name \in DOMAIN tasks) =>
        /\ ThisCall.outcome = "duplicate"
        /\ tasks' = tasks
        /\ startedTasks' = startedTasks
        /\ completedTasks' = completedTasks
        /\ dependencyList' = dependencyList
        /\ taskLogs'[ThisCall.name] =
              Append(taskLogs[ThisCall.name], LogEntry("TaskAlreadyExists", 0, "Skipped", ""))

C14_DuplicateNameRejectedQuietly == [][C14_DuplicateNameStep]_vars

(***************************************************************************)
(* C15: a call of addTask for a new task whose declared dependencies are    *)
(* all in completedTasks starts that task: when the call returns the task   *)
(* has entered its pipeline, no further completion being needed.            *)
(* The code does not keep this: with declared dependencies addTask only     *)
(* registers listeners and returns.                                        *)
(***************************************************************************)
C15_CompletedDependenciesStep ==
    (/\ AddTaskCalled
     /\ ThisCall.name \notin DOMAIN tasks
     /\ ThisCall.task.dependencies # {}
     /\ ThisCall.task.dependencies \subseteq completedTasks
     /\ ThisCall.derived \subseteq completedTasks)
    => /\ ThisCall.name \in startedTasks'
       /\ actionCalls'[ThisCall.name] = 1

C15_StartedByTheCall == [][C15_CompletedDependenciesStep]_vars

(***************************************************************************)
(* C16: a call addTask(T) for a new T, one of whose declared dependencies   *)
(* is not a task of the workflow, ends with the missing-dependency error,   *)
(* and the action of T is never invoked because of it.                      *)
(* The code does not keep this: T is registered in this.tasks before the    *)
(* check, so a call that threw still leaves a task that a completion can    *)
(* start; and before any task has started the call ends with the TypeError  *)
(* of C14.                                                                  *)
(***************************************************************************)
C16_MissingDependencyFails ==
    \A i \in DOMAIN addLog :
        LET call == addLog[i]
        IN  (/\ call.name \notin call.known
             /\ \E dep \in call.task.dependencies : dep \notin call.known \cup {call.name})
            => /\ call.outcome = "ConfigError"
               /\ actionCalls[call.name] = 0

C18_AddedEdgesGateTheirTargets ==
    \A i \in DOMAIN addLog :
        LET call == addLog[i]
        IN  call.outcome \in {"attempted", "waiting"} =>
                \A c \in EdgeTargets(call.task) :
                    (c \in call.known /\ c \notin call.started /\ c \in startedTasks)
                        => call.name \in completedTasks

(***************************************************************************)
(* C19: a call of addTask that adds T with declared dependencies leaves T   *)
(* with the union of those dependencies and the predecessors the dependency *)
(* list already held for T, and changes the entry of no other task.         *)
(* The code does not keep this: the entry of T is overwritten with the      *)
(* declared dependencies.                                                   *)
(***************************************************************************)
C19_DependenciesUnitedStep ==
    (AddTaskCalled /\ ThisCall.outcome = "waiting") =>
        /\ DOMAIN dependencyList' = DOMAIN dependencyList \cup {ThisCall.name}
        /\ dependencyList'[ThisCall.name] = ThisCall.task.dependencies \cup ThisCall.derived
        /\ \A k \in DOMAIN dependencyList \ {ThisCall.name} :
              dependencyList'[k] = dependencyList[k]

C19_DependenciesUnited == [][C19_DependenciesUnitedStep]_vars

(***************************************************************************)
(* C20: when an edge of P names X, no task X exists, and addTask adds X     *)
(* after P has completed, X has started once P and the declared             *)
(* dependencies of X are all completed: the reference is not lost.          *)
(* The code does not keep this for an X that declares dependencies which    *)
(* are completed when it is added (see C15).                                *)
(***************************************************************************)
C20_LateTargetStarted ==
    \A i \in DOMAIN addLog :
        LET call == addLog[i]
        IN  (/\ call.outcome \in {"attempted", "waiting"}
             /\ call.derived # {}
             /\ call.derived \subseteq call.completed
             /\ call.task.dependencies \subseteq completedTasks)
            => call.name \in startedTasks

(***************************************************************************)
(* C21: a task whose runIf is present and false when executeTask evaluates  *)
(* it (its dependencies being complete) has no action invoked and no hook   *)
(* called, is neither started nor completed, sends no trigger, and no task  *)
(* that waits for it is started.                                            *)
(***************************************************************************)
C21_SkippedTaskDoesNothing ==
    \A t \in DOMAIN tasks :
        (tasks[t].runIf = "false" \/ (tasks[t].runIf = "ifA" /\ t \in skips)) =>
            /\ actionCalls[t] = 0
            /\ hookCalls[t] = <<>>
            /\ t \notin startedTasks /\ t \notin completedTasks
            /\ results[t] = NoResult
            /\ signals[t] = {}
            /\ \A u \in DOMAIN tasks : t \in DepsOf(Cur, u) => u \notin startedTasks

\* C21 witness: a task with hooks of its own, in a workflow with hooks, was
\* skipped when its last predecessor completed
C21_Witness ==
    \E t \in skips :
        /\ tasks[t].onStart = "returns" /\ options = AllOptions
        /\ DepsOf(Cur, t) # {} /\ DepsOf(Cur, t) \subseteq completedTasks
        /\ \A d \in DepsOf(Cur, t) : pc[d] = "done"

(***************************************************************************)
(* C22: a task whose runIf was false when executeTask evaluated it is left  *)
(* Skipped, and its log holds an entry that records the skip.               *)
(* The code does not keep this: executeTask returns at the runIf test       *)
(* before it writes anything.                                               *)
(***************************************************************************)
C22_SkipIsLogged ==
    \A t \in skips :
        \E i \in DOMAIN taskLogs[t] : taskLogs[t][i].status = "Skipped"

\* the task-level hook of the event of a workflow-level hook
TaskLevel(hook) ==
    CASE hook = "onTaskStart" -> "onStart"
      [] hook = "onTaskComplete" -> "onComplete"
      [] hook = "onTaskError" -> "onError"
      [] OTHER -> "none"

(***************************************************************************)
(* C23: for each start, completion and error of an attempt, the task's own  *)
(* hook (onStart, onComplete, onError) is called before the workflow's hook *)
(* of that event (onTaskStart, onTaskComplete, onTaskError): where a task   *)
(* has a hook for the event, every call of the workflow's hook comes right  *)
(* after a call of the task's.                                              *)
(* The code does not keep this: both engines call the workflow's hook       *)
(* first.                                                                   *)
(***************************************************************************)
C23_TaskLevelHookFirst ==
    \A t \in DOMAIN tasks : \A i \in DOMAIN hookCalls[t] :
        LET hook == hookCalls[t][i]
        IN  (TaskLevel(hook) # "none" /\ tasks[t][TaskLevel(hook)] # "none")
                => i > 1 /\ hookCalls[t][i - 1] = TaskLevel(hook)

(***************************************************************************)
(* C24: the dependency map the constructor builds with createDependencyList *)
(* (what getDependenciesList returns) maps each task to its declared        *)
(* dependencies united with the tasks that name it in next; a task that     *)
(* names it only in a branch or in default is not in its set.               *)
(* The code does not keep this: createDependencyList never reads            *)
(* task.dependencies, and adds the sources of branch and default edges.     *)
(***************************************************************************)
C24_DependencyMapIsJoinSet ==
    addLog = <<>> =>
        \A t \in DOMAIN tasks :
            /\ t \in DOMAIN dependencyList
            /\ dependencyList[t] = RequiredPredecessors(t)

\* the tasks that name t in a branch
BranchSources(t) == {p \in DOMAIN tasks : t \in BranchTargets(tasks[p])}

\* executeTask(p) has ended with p completed, and a branch of p whose condition
\* is true names t
BranchSelected(p, t) ==
    /\ p \in completedTasks /\ pc[p] = "done"
    /\ \E i \in MatchedBranches(tasks[p], p, results) : t \in tasks[p].branches[i].next

(***************************************************************************)
(* C25: a task T named in branches of two different tasks P and Q, with no  *)
(* declared dependencies and no incoming next edge, has started once one of *)
(* P, Q has completed with a true branch condition that names T, whether or *)
(* not the other has completed.                                             *)
(* The code does not keep this: both P and Q are in T's dependency list and *)
(* T waits for both (see C24).                                              *)
(***************************************************************************)
C25_OneBranchSourceSuffices ==
    \A t \in DOMAIN tasks :
        (/\ Cardinality(BranchSources(t)) >= 2
         /\ tasks[t].dependencies = {} /\ ~HasIncomingNext(t)
         /\ tasks[t].runIf = "none"
         /\ \E p \in BranchSources(t) : BranchSelected(p, t))
        => t \in startedTasks

(***************************************************************************)
(* C26: in the README's advanced example (validateUser branches to          *)
(* processData when the user is valid and to abort when not, both with next *)
(* finalize), finalize is eventually executed whichever branch is taken, in *)
(* every run in which no action fails.                                      *)
(* The code does not keep this: finalize waits for both processData and     *)
(* abort, and only one of them ever runs.                                   *)
(***************************************************************************)
C26_FinalizeExecuted == actionCalls["E"] > 0

\* validateUser resolved with a result for which neither condition is true, or
\* some action failed
C26_RunOutsideClaim ==
    \/ results["B"] = "other"
    \/ \E t \in DOMAIN tasks : \E i \in DOMAIN outcomes[t] : outcomes[t][i] # "ok"

C26_FinalizeEventuallyExecuted == <>(C26_FinalizeExecuted \/ C26_RunOutsideClaim)

(***************************************************************************)
(* C27: in Workflow.ts, a task T that several branches of P name, and that  *)
(* waits for P alone, has started once P has completed with at least one of *)
(* those branches' conditions true; a false condition of another branch     *)
(* that names T does not prevent it.                                        *)
(* The code does not keep this: attemptToStartTask returns at the first     *)
(* branch that names T and whose condition is false.                        *)
(***************************************************************************)
C27_AnyTrueBranchStarts ==
    \A p, t \in DOMAIN tasks :
        (/\ engine = "Workflow"
         /\ Cardinality({i \in DOMAIN tasks[p].branches : t \in tasks[p].branches[i].next}) >= 2
         /\ BranchSelected(p, t)
         /\ DepsOf(Cur, t) = {p}
         /\ tasks[t].runIf = "none")
        => t \in startedTasks

(***************************************************************************)
(* C28: in Workflow.ts, a task named in P's default list and in none of P's *)
(* branches, and that waits for P alone, is not started by P's completion   *)
(* when some branch condition of P is true.                                 *)
(* The code does not keep this: a default target is an ordinary dependent   *)
(* of P and starts whenever P completes.                                    *)
(***************************************************************************)
C28_DefaultOnlyWhenNoBranchMatched ==
    \A p, t \in DOMAIN tasks :
        (/\ engine = "Workflow"
         /\ t \in tasks[p].default
         /\ t \notin BranchTargets(tasks[p]) \cup NextTasks(tasks[p])
         /\ DepsOf(Cur, t) = {p}
         /\ p \in completedTasks
         /\ MatchedBranches(tasks[p], p, results) # {})
        => t \notin startedTasks

(***************************************************************************)
(* C29: in Workflow2, when a task whose next is a single name has passed    *)
(* the end of its try block, the named task has been sent a trigger as for  *)
(* a one-element list, and the task stays completed: its last log entry is  *)
(* TaskCompleted and no attempt follows.                                    *)
(* The code does not keep this: triggerNextTasks calls forEach on the       *)
(* string, the TypeError lands in the catch block, no trigger is sent and a *)
(* TaskFailed entry is logged for the completed task.                       *)
(***************************************************************************)
C29_SingleNameNextTriggers ==
    \A t \in DOMAIN tasks :
        (/\ engine = "Workflow2"
         /\ tasks[t].next.kind = "string"
         /\ t \in completedTasks /\ success[t])
        => /\ NextTasks(tasks[t]) \subseteq signals[t]
           /\ taskLogs[t][Len(taskLogs[t])].event = "TaskCompleted"
           /\ pc[t] = "done"
           /\ actionCalls[t] = Len(outcomes[t])

(***************************************************************************)
(* C30: in Workflow2, the branch conditions of a completed task P are       *)
(* evaluated against this.results exactly as it stood just after            *)
(* results[P] was written: no other task's result is recorded in between,   *)
(* for any interleaving of running tasks and any hooks.                     *)
(* The code does not keep this: the completion hooks are awaited between    *)
(* the write and triggerNextTasks, and another task can complete meanwhile. *)
(***************************************************************************)
C30_BranchesReadOwnSnapshot ==
    \A p \in DOMAIN tasks :
        (/\ engine = "Workflow2"
         /\ tasks[p].branches # <<>>
         /\ evaluated[p] # <<>>)
        => evaluated[p] = recorded[p]

(***************************************************************************)
(* C31: what the action of a timed-out attempt delivers after the timeout   *)
(* is ignored: the step in which it settles changes neither results nor     *)
(* completedTasks, sends no trigger, starts nothing and logs nothing; a     *)
(* task is in completedTasks only through an attempt whose action resolved  *)
(* before its timer fired.                                                  *)
(***************************************************************************)
C31_LateSettlementStep ==
    (\E t \in Names : late[t] = "pending" /\ late'[t] = "settled") =>
        /\ results' = results
        /\ completedTasks' = completedTasks
        /\ startedTasks' = startedTasks
        /\ signals' = signals
        /\ taskLogs' = taskLogs
        /\ actionCalls' = actionCalls
        /\ pc' = pc

C31_CompletedInTime ==
    \A t \in DOMAIN tasks :
        t \in completedTasks => \E i \in DOMAIN outcomes[t] : outcomes[t][i] = "ok"

C31_LateResultIgnored == []C31_CompletedInTime /\ [][C31_LateSettlementStep]_vars

\* C31 witness: every attempt of a task timed out, an action settled afterwards,
\* and the task is left failed without a result
C31_Witness ==
    \E t \in DOMAIN tasks :
        /\ late[t] = "settled"
        /\ Len(outcomes[t]) >= 2
        /\ \A i \in DOMAIN outcomes[t] : outcomes[t][i] = "hang"
        /\ PermanentlyFailed(t)
        /\ results[t] = NoResult

\* t passes the gates of attemptToStartTask and executeTask: every task of its
\* dependency list has completed and sent it its event, no branch that names it
\* is false (Workflow.ts), and it has no runIf
Eligible(t) ==
    /\ DepsOf(Cur, t) # {}
    /\ \A d \in DepsOf(Cur, t) : d \in completedTasks /\ t \in signals[d]
    /\ engine = "Workflow" => ~BranchBlocks(Cur, t)
    /\ tasks[t].runIf = "none"

(***************************************************************************)
(* C32: the scheduler does not serialise the tasks. Nothing completes       *)
(* before the start loop has run, the loop dispatches every root (a task    *)
(* with an empty dependency list) before any completion is processed, and   *)
(* a task that the completions so far have made eligible has been           *)
(* dispatched in the step of the completion that made it so, however many   *)
(* tasks are in flight. The tasks are those given to the constructor; the   *)
(* tasks of addTask are the subject of C15 and C16.                         *)
(***************************************************************************)
C32_EligibleTasksDispatched ==
    /\ ~StartLoopRan => completedTasks = {}
    /\ StartLoopRan =>
          \A t \in ConstructorTasks :
              (DepsOf(Cur, t) = {} /\ tasks[t].runIf = "none") => t \in startedTasks
    /\ \A t \in ConstructorTasks : Eligible(t) => t \in startedTasks

\* C32 witness: one completion has dispatched three tasks at once, all still in
\* their first attempt
C32_Witness ==
    \E p \in completedTasks :
        /\ pc[p] = "done"
        /\ Cardinality({t \in signals[p] \cap ConstructorTasks : Eligible(t) /\ pc[t] = "action"
                                              /\ outcomes[t] = <<>>}) >= 3

\* the constructor tasks that name t in next
NextSources(t) == {a \in ConstructorTasks : t \in tasks[a].next.names}

\* the scenario's B: given to the constructor, no declared dependencies, named
\* in the next of some task and in no branch or default
NextTargets ==
    {b \in ConstructorTasks :
        /\ tasks[b].dependencies = {}
        /\ NextSources(b) # {}
        /\ \A u \in DOMAIN tasks :
              /\ b \notin tasks[u].default
              /\ \A i \in DOMAIN tasks[u].branches : b \notin tasks[u].branches[i].next}

(***************************************************************************)
(* C33 (as amended): with A (next: B) and B without declared dependencies   *)
(* or other edges, B is not started by start(): naming B in next makes A a  *)
(* dependency of B. B enters its pipeline only once every task that names   *)
(* it in next has completed, and at most once.                              *)
(***************************************************************************)
C33_NextTargetWaitsForSource ==
    \A b \in NextTargets :
        /\ b \in startedTasks => NextSources(b) \subseteq completedTasks
        /\ entered[b] <= 1
        /\ actionCalls[b] > 0 => b \in startedTasks

\* C33 witness: A has completed and triggered B, which is in its first attempt
C33_Witness ==
    \E b \in NextTargets :
        /\ NextSources(b) \subseteq completedTasks
        /\ \A a \in NextSources(b) : b \in signals[a]
        /\ entered[b] = 1 /\ pc[b] = "action" /\ outcomes[b] = <<>>

\* C33 as written: B has been started when the start loop has run
C33_NextTargetStartsAtStart ==
    StartLoopRan =>
        \A b \in NextTargets : tasks[b].runIf = "none" => b \in startedTasks

(***************************************************************************)
(* C34: once a task is in completedTasks, no step invokes its action again, *)
(* appends a TaskFailed entry to its log or changes its result, whatever    *)
(* the completion hooks and the triggering of its successors do.            *)
(* The code does not keep this: the hooks and the triggering run inside the *)
(* try block of the attempt, before `success = true`.                       *)
(***************************************************************************)
C34_CompletedTaskIsSettled ==
    [][\A t \in completedTasks :
          /\ actionCalls'[t] = actionCalls[t]
          /\ Entries(t, "TaskFailed")' = Entries(t, "TaskFailed")
          /\ results'[t] = results[t]]_vars

\* completedTasks is within startedTasks
C35_CompletedWithinStarted == completedTasks \subseteq startedTasks

\* no step removes a name from startedTasks or from completedTasks
C35_SetsOnlyGrow ==
    /\ startedTasks \subseteq startedTasks'
    /\ completedTasks \subseteq completedTasks'

(***************************************************************************)
(* C35: in every reachable state completedTasks is a subset of              *)
(* startedTasks, and no step (start, completion, failure, retry, addTask)   *)
(* removes a name from either set.                                          *)
(***************************************************************************)
C35_StartedAndCompletedGrow ==
    []C35_CompletedWithinStarted /\ [][C35_SetsOnlyGrow]_vars

\* C35 witness: after an addTask call, a completion and a failure, one task is
\* completed, another has failed for good and is started and not completed
C35_Witness ==
    /\ addLog # <<>>
    /\ completedTasks # {}
    /\ \E t \in startedTasks \ completedTasks :
          Entries(t, "TaskFailed") # {} /\ pc[t] = "done"

\* the join tasks: named in the next of two or more tasks, in no branch or
\* default, without runIf
JoinTasks == {t \in NextTargets : Cardinality(NextSources(t)) >= 2 /\ tasks[t].runIf = "none"}

(***************************************************************************)
(* C36: a join task T named in the next of A and B, which run concurrently, *)
(* has its action invoked only after both have completed, enters its        *)
(* pipeline at most once, and has entered it once both completions have     *)
(* been processed, in either order and in both engines.                     *)
(* The code does not keep this: a completion whose hook throws, or whose    *)
(* next is a single name in Workflow2, never triggers T (see C34, C29).     *)
(***************************************************************************)
C36_JoinRunsOnceAfterBoth ==
    \A t \in JoinTasks :
        /\ actionCalls[t] > 0 => NextSources(t) \subseteq completedTasks
        /\ entered[t] <= 1
        /\ (\A a \in NextSources(t) : a \in completedTasks /\ pc[a] = "done")
              => entered[t] = 1

(***************************************************************************)
(* C37: in Workflow.ts the workflow log holds at most one WorkflowCompleted *)
(* entry, also when addTask adds a task after every known task completed.   *)
(* The code does not keep this: checkIfAllTasksCompleted appends the entry  *)
(* whenever the two counts are equal.                                        *)
(***************************************************************************)
C37_WorkflowCompletedLoggedOnce ==
    engine = "Workflow" =>
        Cardinality({i \in DOMAIN workflowLog : workflowLog[i] = "WorkflowCompleted"}) <= 1

\* the entries of t's log that executeTask wrote, in order
IsExecutionEntry(e) == e.event \in {"TaskStarted", "TaskCompleted", "TaskFailed"}

ExecutionEntries(t) == SelectSeq(taskLogs[t], IsExecutionEntry)

\* TaskStarted(k) and its TaskCompleted(k) or TaskFailed(k), for k = 1, 2, ...
AttemptHistory(t) ==
    LET h == ExecutionEntries(t)
    IN  /\ \A i \in DOMAIN h :
              IF i % 2 = 1
              THEN h[i].event = "TaskStarted" /\ h[i].attempt = (i + 1) \div 2
              ELSE h[i].event \in {"TaskCompleted", "TaskFailed"} /\ h[i].attempt = i \div 2
        /\ Len(h) <= 2 * RetryMaxAttempts(tasks[t])
        /\ Cardinality(Entries(t, "TaskCompleted")) <= 1

C38_WellFormedLogs == \A t \in DOMAIN tasks : AttemptHistory(t)

\* a step only appends to a task's log
C38_AppendOnly ==
    \A t \in DOMAIN taskLogs :
        /\ Len(taskLogs'[t]) >= Len(taskLogs[t])
        /\ SubSeq(taskLogs'[t], 1, Len(taskLogs[t])) = taskLogs[t]

(***************************************************************************)
(* C38: each task's log is a well-formed attempt history: its execution     *)
(* entries are TaskStarted(k) followed by exactly one of TaskCompleted(k)   *)
(* and TaskFailed(k), for k = 1, 2, ... up to at most maxAttempts, entries  *)
(* are only appended, and at most one entry is TaskCompleted.               *)
(* The code does not keep this: an attempt whose completion hook or         *)
(* triggering step throws logs TaskCompleted(k) and then TaskFailed(k),     *)
(* and is repeated (see C34, C29).                                          *)
(***************************************************************************)
C38_LogIsAttemptHistory == []C38_WellFormedLogs /\ [][C38_AppendOnly]_vars

\* the earlier addTask calls with the name of this one
EarlierCalls == {i \in DOMAIN addLog : addLog[i].name = ThisCall.name}

\* a call of addTask that throws for a missing dependency changes neither the
\* task map nor the dependency map, and a later call with the same name and
\* existing dependencies adds the task
C39_FailedAddIsUndoneStep ==
    AddTaskCalled =>
        /\ ThisCall.outcome = "ConfigError" =>
              /\ tasks' = tasks
              /\ dependencyList' = dependencyList
        /\ (/\ EarlierCalls # {}
            /\ \A i \in EarlierCalls : addLog[i].outcome = "ConfigError"
            /\ ThisCall.name \notin addLog[CHOOSE i \in EarlierCalls : TRUE].known
            /\ ThisCall.task.dependencies \subseteq DOMAIN tasks)
           => ThisCall.outcome \in {"attempted", "waiting"}

(***************************************************************************)
(* C39: when addTask(T) throws because a declared dependency is missing,    *)
(* the workflow is as it was before the call: T is not in the task map, the *)
(* dependency map is unchanged, completion is decided over the previous     *)
(* task set, and a later addTask with the same name and existing            *)
(* dependencies is accepted and not rejected as a duplicate.                *)
(* The code does not keep this: T is stored in this.tasks before its        *)
(* dependencies are checked (see C16).                                      *)
(***************************************************************************)
C39_FailedAddIsUndone == [][C39_FailedAddIsUndoneStep]_vars

\* a call of addTask with a new name and existing dependencies returns normally,
\* and a task without dependencies is registered and started by it
C40_NewTaskIsAddedStep ==
    (/\ AddTaskCalled
     /\ ThisCall.name \notin ThisCall.known
     /\ ThisCall.task.dependencies \subseteq ThisCall.known)
    => /\ ThisCall.outcome \in {"attempted", "waiting"}
       /\ ThisCall.name \in DOMAIN tasks'
       /\ (/\ ThisCall.task.dependencies = {}
           /\ ThisCall.derived = {}
           /\ ThisCall.task.runIf = "none") => ThisCall.name \in startedTasks'

(***************************************************************************)
(* C40: addTask with a new task name returns without throwing in every      *)
(* state of the workflow, also before start() and before any task has begun *)
(* executing, and a task added without dependencies is then registered and  *)
(* started.                                                                 *)
(* The code does not keep this: until a task has entered executeTask,       *)
(* this.logs.tasks is undefined and addTask throws a TypeError (see C14).   *)
(***************************************************************************)
C40_NewTaskIsAdded == [][C40_NewTaskIsAddedStep]_vars

====
